---- MODULE Spec2Model ----
(***************************************************************************)
(* Output stream buffers of array_streambuf (src/log.h): nullbuf,          *)
(* arraybuf<N> and prefixed<Prefix, OutputStreambuf>, together with the    *)
(* destination std::ostream they write to.                                 *)
(*                                                                         *)
(* Characters are char values (signed 8 bit), int_type values are ints.    *)
(* Pointers into buffer_ are offsets from buffer_.begin().                 *)
(***************************************************************************)
EXTENDS Integers, Sequences, FiniteSets, TLC

VARIABLES sb, dest, ops

vars == <<sb, dest, ops>>

(* ------------------------------ bounds --------------------------------- *)

\* largest capacity N of an arraybuf<N> the model instantiates
MaxN == 3
\* largest number of characters a caller writes to one stream buffer
MaxLen == 4
\* largest number of explicit flushes a caller issues
MaxFlush == 3
\* largest number of chars the put area of a stringbuf grows by at a time
MaxGrow == 2
\* largest number of nested activations of overflow the model follows
MaxDepth == 3

\* characters a caller writes: '[' (also the first prefix character) and
\* '\xff' (a char whose int_type value differs from its char value)
Byte == {91, -1}

(* --------------------------- char_traits ------------------------------- *)

\* std::char_traits<char>::to_int_type: the value of the char as unsigned char
to_int_type(c) == c % 256

\* std::char_traits<char>::to_char_type: the int narrowed back to (signed) char
to_char_type(i) == IF i % 256 >= 128 THEN (i % 256) - 256 ELSE i % 256

(* ----------------------------- prefixes -------------------------------- *)

\* "[debug]: " with its terminating 0
debug_prefix == <<91, 100, 101, 98, 117, 103, 93, 58, 32, 0>>

\* "[info]: " with its terminating 0
info_prefix == <<91, 105, 110, 102, 111, 93, 58, 32, 0>>

\* length that counts the terminating 0 as well
length_with_nul(s) == Len(s)

RECURSIVE length(_)
\* prefixed::length: number of chars before the terminating 0
length(s) == IF Head(s) = 0 THEN 0 ELSE length(Tail(s)) + 1

\* prefixed::prefix_length
prefix_length(s) == length(s.prefix_value)

\* the handles of the logger and the prefix each one is instantiated with
prefix_of(h) == IF h = "debug" THEN debug_prefix ELSE info_prefix

(* --------------------------- destination ------------------------------- *)

\* the destination is the log of the calls made on it and of what happened
\* to it; an entry has the pointer argument a write call was given (ptr),
\* the chars it was given (req) and the chars it transferred (data)
Event(call, ptr, req, data) ==
    [call |-> call, ptr |-> ptr, req |-> req, data |-> data]

\* !good() of the destination: it failed and clear() was not called since
fail(os) ==
    \E i \in 1..Len(os) :
        /\ os[i].call = "fail"
        /\ \A j \in (i + 1)..Len(os) : os[j].call # "clear"

\* std::ostream::write(ptr, n) on the destination: one call, which transfers
\* the n chars, or nothing when the stream is not good
ostream_write(os, ptr, data) ==
    Append(os, Event("write", ptr, data, IF fail(os) THEN <<>> ELSE data))

\* std::ostream::flush() on the destination
ostream_flush(os) == Append(os, Event("flush", "none", <<>>, <<>>))

(* -------------------------- stream buffers ----------------------------- *)

\* pbase() as an offset from buffer_.begin()
pbase == 0

\* a put area that ends one past buffer_.end()
epptr_past_end(s) == s.capacity + 1

\* epptr(): setp(buffer_.begin(), buffer_.end()); nullbuf has no put area
epptr(s) == s.capacity

\* the object after its constructors ran
construct(prefixed, base, N, prefix) ==
    [prefixed     |-> prefixed,
     base         |-> base,
     capacity     |-> N,
     prefix_value |-> prefix,
     buffer_      |-> [i \in 1..N |-> 0],
     pptr         |-> pbase,
     send_prefix_ |-> TRUE,
     alive        |-> TRUE]

\* a stringbuf after its constructors ran: the put area of the empty string
\* has cap0 chars, grows by grow chars on overflow, and str("") keeps its
\* size or not, as the library implements it
construct_stringbuf(prefixed, cap0, grow, keep, prefix) ==
    construct(prefixed, "stringbuf", cap0, prefix) @@
        [cap0 |-> cap0, grow |-> grow, keep |-> keep]

\* overflow as std::streambuf defines it: it fails with EOF
nullbuf_overflow_eof(s, os, ch) == [s |-> s, os |-> os, ret |-> -1]

\* nullbuf::overflow
nullbuf_overflow(s, os, ch) == [s |-> s, os |-> os, ret |-> ch]

\* commit that makes no call when the put area is empty
commit_skip_empty(s, os) ==
    LET n == s.pptr - pbase
    IN  [s  |-> [s EXCEPT !.pptr = @ - n],
         os |-> IF n > 0
                THEN ostream_write(os, "pbase", SubSeq(s.buffer_, 1, n))
                ELSE os]

\* commit that clears the error state of a failed destination and writes
\* the put area again
commit_clear_retry(s, os) ==
    LET n   == s.pptr - pbase
        os1 == ostream_write(os, "pbase", SubSeq(s.buffer_, 1, n))
    IN  [s  |-> [s EXCEPT !.pptr = @ - n],
         os |-> IF fail(os1)
                THEN ostream_write(Append(os1, Event("clear", "none", <<>>, <<>>)),
                                   "pbase", SubSeq(s.buffer_, 1, n))
                ELSE os1]

\* arraybuf::commit
commit(s, os) ==
    LET n == s.pptr - pbase
    IN  [s  |-> [s EXCEPT !.pptr = @ - n],
         os |-> ostream_write(os, "pbase", SubSeq(s.buffer_, 1, n))]

RECURSIVE sputc(_, _, _)
RECURSIVE overflow(_, _, _)

\* overflow that stores ch without narrowing it to char_type
arraybuf_overflow_no_narrow(s, os, ch) ==
    LET c == commit(s, os)
        p == sputc(c.s, c.os, ch)
    IN  [s |-> p.s, os |-> p.os, ret |-> ch]

\* overflow that commits and drops the incoming character
arraybuf_overflow_drop(s, os, ch) ==
    LET c == commit(s, os)
    IN  [s |-> c.s, os |-> c.os, ret |-> ch]

\* arraybuf::overflow
arraybuf_overflow(s, os, ch) ==
    LET c == commit(s, os)
        p == sputc(c.s, c.os, to_char_type(ch))
    IN  [s |-> p.s, os |-> p.os, ret |-> ch]

\* std::stringbuf::overflow, which stringbuf inherits: the string grows, the
\* put area with it, and the character is stored
std_stringbuf_overflow(s, os, ch) ==
    [s   |-> [s EXCEPT !.capacity = @ + s.grow,
                       !.buffer_  = [i \in 1..(s.capacity + s.grow) |->
                                        IF i <= s.pptr THEN s.buffer_[i]
                                        ELSE IF i = s.pptr + 1 THEN to_char_type(ch)
                                        ELSE 0],
                       !.pptr     = @ + 1],
     os  |-> os,
     ret |-> ch]

\* base_type::overflow of prefixed<Prefix, OutputStreambuf>
base_overflow(s, os, ch) ==
    IF s.base = "stringbuf" THEN std_stringbuf_overflow(s, os, ch)
    ELSE arraybuf_overflow(s, os, ch)

\* overflow that leaves send_prefix_ set
prefixed_overflow_keep_flag(s, os, ch) ==
    LET os1 == IF s.send_prefix_
               THEN ostream_write(os, "prefix_value",
                                  SubSeq(s.prefix_value, 1, prefix_length(s)))
               ELSE os
    IN  base_overflow(s, os1, ch)

\* overflow that sends the prefix through the put area
prefixed_overflow_into_buffer(s, os, ch) ==
    LET r == base_overflow([s EXCEPT !.send_prefix_ = FALSE], os, ch)
    IN  IF s.send_prefix_ /\ r.s.pptr < epptr(r.s)
        THEN [sputc(r.s, r.os, s.prefix_value[1]) EXCEPT !.ret = ch]
        ELSE r

\* prefixed::overflow
prefixed_overflow(s, os, ch) ==
    LET os1 == IF s.send_prefix_
               THEN ostream_write(os, "prefix_value",
                                  SubSeq(s.prefix_value, 1, prefix_length(s)))
               ELSE os
        s1  == IF s.send_prefix_ THEN [s EXCEPT !.send_prefix_ = FALSE] ELSE s
    IN  base_overflow(s1, os1, ch)

\* the virtual call overflow(ch), dispatched on the dynamic type
overflow(s, os, ch) ==
    IF s.prefixed THEN prefixed_overflow(s, os, ch)
    ELSE IF s.base = "arraybuf" THEN arraybuf_overflow(s, os, ch)
    ELSE IF s.base = "stringbuf" THEN std_stringbuf_overflow(s, os, ch)
    ELSE nullbuf_overflow(s, os, ch)

\* std::streambuf::sputc: store while the put area has room, else overflow
sputc(s, os, c) ==
    IF s.pptr < epptr(s)
    THEN [s   |-> [s EXCEPT !.buffer_[s.pptr + 1] = c, !.pptr = @ + 1],
          os  |-> os,
          ret |-> to_int_type(c)]
    ELSE overflow(s, os, to_int_type(c))

\* sync that reports a failed destination
arraybuf_sync_reports(s, os) ==
    LET c == commit(s, os)
    IN  [s |-> c.s, os |-> ostream_flush(c.os),
         ret |-> IF fail(c.os) THEN -1 ELSE 0]

\* arraybuf::sync
arraybuf_sync(s, os) ==
    LET c == commit(s, os)
    IN  [s |-> c.s, os |-> ostream_flush(c.os), ret |-> 0]

\* std::stringbuf::str(""): the string is empty again; the put area starts
\* over, as large as before or as large as at construction
str_empty(s) ==
    LET cap == IF s.keep THEN s.capacity ELSE s.cap0
    IN  [s EXCEPT !.capacity = cap,
                  !.buffer_  = [i \in 1..cap |-> 0],
                  !.pptr     = pbase]

\* sync that leaves the written chars in the string
stringbuf_sync_no_clear(s, os) ==
    LET n   == s.pptr - pbase
        os1 == ostream_write(os, "pbase", SubSeq(s.buffer_, 1, n))
    IN  [s |-> s, os |-> ostream_flush(os1), ret |-> 0]

\* stringbuf::sync
stringbuf_sync(s, os) ==
    LET n   == s.pptr - pbase
        os1 == ostream_write(os, "pbase", SubSeq(s.buffer_, 1, n))
    IN  [s |-> str_empty(s), os |-> ostream_flush(os1), ret |-> 0]

\* base_type::sync of prefixed<Prefix, OutputStreambuf>
base_sync(s, os) ==
    IF s.base = "stringbuf" THEN stringbuf_sync(s, os)
    ELSE arraybuf_sync(s, os)

\* std::streambuf::sync, which nullbuf inherits
streambuf_sync(s, os) == [s |-> s, os |-> os, ret |-> 0]

\* sync that does not set send_prefix_ again
prefixed_sync_no_reset(s, os) ==
    LET os1 == IF s.send_prefix_
               THEN ostream_write(os, "prefix_value",
                                  SubSeq(s.prefix_value, 1, prefix_length(s)))
               ELSE os
    IN  base_sync(s, os1)

\* sync that clears send_prefix_ instead of setting it
prefixed_sync_clears_flag(s, os) ==
    LET os1 == IF s.send_prefix_
               THEN ostream_write(os, "prefix_value",
                                  SubSeq(s.prefix_value, 1, prefix_length(s)))
               ELSE os
        s1  == [s EXCEPT !.send_prefix_ = FALSE]
    IN  base_sync(s1, os1)

\* prefixed::sync
prefixed_sync(s, os) ==
    LET os1 == IF s.send_prefix_
               THEN ostream_write(os, "prefix_value",
                                  SubSeq(s.prefix_value, 1, prefix_length(s)))
               ELSE os
        s1  == [s EXCEPT !.send_prefix_ = TRUE]
    IN  base_sync(s1, os1)

\* std::streambuf::pubsync: the virtual call sync()
pubsync(s, os) ==
    IF s.prefixed THEN prefixed_sync(s, os)
    ELSE IF s.base = "arraybuf" THEN arraybuf_sync(s, os)
    ELSE IF s.base = "stringbuf" THEN stringbuf_sync(s, os)
    ELSE streambuf_sync(s, os)

\* arraybuf::~arraybuf (nullbuf has the implicit destructor)
arraybuf_dtor(s, os) ==
    IF s.base = "arraybuf" THEN arraybuf_sync(s, os)
    ELSE [s |-> s, os |-> os, ret |-> 0]

\* stringbuf::~stringbuf
stringbuf_dtor(s, os) == stringbuf_sync(s, os)

\* the destructor of the base: ~OutputStreambuf
base_dtor(s, os) ==
    IF s.base = "stringbuf" THEN stringbuf_dtor(s, os)
    ELSE arraybuf_dtor(s, os)

\* ~prefixed that leaves the flush to the base
prefixed_dtor_no_sync(s, os) == base_dtor(s, os)

\* ~prefixed that calls sync() whatever the put area holds
prefixed_dtor_always_sync(s, os) ==
    LET d == prefixed_sync(s, os)
    IN  base_dtor(d.s, d.os)

\* prefixed::~prefixed, followed by the destructor of its base
prefixed_dtor(s, os) ==
    LET d == IF s.pptr > pbase THEN prefixed_sync(s, os)
             ELSE [s |-> s, os |-> os, ret |-> 0]
    IN  base_dtor(d.s, d.os)

\* destruction of the complete object
destroy(s, os) ==
    LET d == IF s.prefixed THEN prefixed_dtor(s, os) ELSE base_dtor(s, os)
    IN  [s |-> [d.s EXCEPT !.alive = FALSE], os |-> d.os, ret |-> 0]

(* ------------------------------ history -------------------------------- *)

\* the calls made on handle h so far
OpsOf(h) == SelectSeq(ops, LAMBDA o : o.h = h)

\* number of calls of one kind made so far
Count(op) == Len(SelectSeq(ops, LAMBDA o : o.op = op))

\* a call, with the stretch (at, end] of destination calls it issued
Op(h, op, c, r) ==
    [h |-> h, op |-> op, ch |-> c, ret |-> r.ret,
     at |-> Len(dest), end |-> Len(r.os)]

(* ------------------------------ actions -------------------------------- *)

\* the stream buffer types the model instantiates: <<prefixed, base>>
Kinds == {<<FALSE, "nullbuf">>, <<FALSE, "arraybuf">>, <<TRUE, "arraybuf">>}

\* one stream buffer of any type and capacity, writing to an empty destination
Init ==
    /\ \E h \in {"info", "debug"}, k \in Kinds, N \in 1..MaxN :
          sb = (h :> construct(k[1], k[2],
                               IF k[2] = "nullbuf" THEN 0 ELSE N,
                               prefix_of(h)))
    /\ dest = <<>>
    /\ ops = <<>>

\* the caller writes one character: os << c, i.e. rdbuf()->sputc(c)
Put(h) ==
    \E c \in Byte :
        /\ sb[h].alive
        /\ Count("sputc") < MaxLen
        /\ LET r == sputc(sb[h], dest, c)
           IN  /\ sb' = [sb EXCEPT ![h] = r.s]
               /\ dest' = r.os
               /\ ops' = Append(ops, Op(h, "sputc", c, r))

\* the caller flushes: os << std::flush, i.e. rdbuf()->pubsync()
Flush(h) ==
    /\ sb[h].alive
    /\ Count("pubsync") < MaxFlush
    /\ LET r == pubsync(sb[h], dest)
       IN  /\ sb' = [sb EXCEPT ![h] = r.s]
           /\ dest' = r.os
           /\ ops' = Append(ops, Op(h, "pubsync", 0, r))

\* the stream buffer goes out of scope
Destroy(h) ==
    /\ sb[h].alive
    /\ LET r == destroy(sb[h], dest)
       IN  /\ sb' = [sb EXCEPT ![h] = r.s]
           /\ dest' = r.os
           /\ ops' = Append(ops, Op(h, "destroy", 0, r))

Next == \E h \in DOMAIN sb : Put(h) \/ Flush(h) \/ Destroy(h)

Spec == Init /\ [][Next]_vars

\* "hello world, test", the message of the scenario with capacity 10
Script == <<104, 101, 108, 108, 111, 32, 119, 111, 114, 108, 100, 44, 32,
            116, 101, 115, 116>>

\* a plain or prefixed arraybuf<N>, N up to MaxN or 10, on the info handle
InitScenario ==
    /\ \E p \in BOOLEAN, N \in (1..MaxN) \cup {10} :
          sb = ("info" :> construct(p, "arraybuf", N, prefix_of("info")))
    /\ dest = <<>>
    /\ ops = <<>>

\* the caller writes the next character of the message
PutScript(h) ==
    /\ sb[h].alive
    /\ Count("sputc") < Len(Script)
    /\ LET c == Script[Count("sputc") + 1]
           r == sputc(sb[h], dest, c)
       IN  /\ sb' = [sb EXCEPT ![h] = r.s]
           /\ dest' = r.os
           /\ ops' = Append(ops, Op(h, "sputc", c, r))

NextScenario == \E h \in DOMAIN sb : PutScript(h) \/ Flush(h) \/ Destroy(h)

\* the message written to one arraybuf, flushed at any points
SpecScenario == InitScenario /\ [][NextScenario]_vars

\* the stringbufs the model instantiates: any size of the initial put
\* area, any growth, any effect of str("") on the put area
StringBufs(h) ==
    {construct_stringbuf(p, c, g, k, prefix_of(h)) :
        p \in BOOLEAN, c \in 0..MaxN, g \in 1..MaxGrow, k \in BOOLEAN}

\* the arraybufs the model instantiates
ArrayBufs(h) ==
    {construct(p, "arraybuf", N, prefix_of(h)) : p \in BOOLEAN, N \in 1..MaxN}

\* one plain or prefixed arraybuf or stringbuf on an empty destination
InitBuffered ==
    /\ \E s \in ArrayBufs("info") \cup StringBufs("info") : sb = ("info" :> s)
    /\ dest = <<>>
    /\ ops = <<>>

\* calls on an arraybuf or a stringbuf with a destination that does not fail
SpecBuffered == InitBuffered /\ [][Next]_vars

\* the destination fails: its own stream buffer cannot take the chars any
\* more, and the stream is not good from then on
DestFail ==
    /\ ~fail(dest)
    /\ \E h \in DOMAIN sb : sb[h].alive
    /\ dest' = Append(dest, Event("fail", "none", <<>>, <<>>))
    /\ UNCHANGED <<sb, ops>>

NextFail == Next \/ DestFail

\* one plain or prefixed arraybuf of the smallest or the largest capacity, or
\* stringbuf whose put area starts with at most one char, grows by one char
\* and keeps its size, on an empty destination
InitFail ==
    /\ \E s \in {t \in ArrayBufs("info") : t.capacity \in {1, MaxN}} \cup
                {t \in StringBufs("info") : t.cap0 <= 1 /\ t.grow = 1 /\ t.keep} :
          sb = ("info" :> s)
    /\ dest = <<>>
    /\ ops = <<>>

\* calls on an arraybuf or a stringbuf whose destination may fail at any time
SpecFail == InitFail /\ [][NextFail]_vars

\* logger<Void>::info_buf and debug_buf: two prefixed arraybuf<N> on one
\* destination
InitLogger ==
    /\ \E N \in 1..MaxN :
          sb = [h \in {"info", "debug"} |->
                   construct(TRUE, "arraybuf", N, prefix_of(h))]
    /\ dest = <<>>
    /\ ops = <<>>

\* the character the messages of a handle are made of: 'i' or 'd'
LogChar(h) == IF h = "debug" THEN 100 ELSE 105

\* the caller writes one character of a message to log::info or log::debug
PutLog(h) ==
    /\ Count("sputc") < MaxLen
    /\ LET r == sputc(sb[h], dest, LogChar(h))
       IN  /\ sb' = [sb EXCEPT ![h] = r.s]
           /\ dest' = r.os
           /\ ops' = Append(ops, Op(h, "sputc", LogChar(h), r))

NextLogger == \E h \in DOMAIN sb : PutLog(h) \/ Flush(h)

\* writes and flushes on the two handles of the logger, in any order
SpecLogger == InitLogger /\ [][NextLogger]_vars

\* one plain arraybuf<N>, N from 0, with the activations of overflow that
\* have not returned (frames) and the argument they were called with (arg)
InitCall ==
    /\ \E N \in 0..MaxN :
          sb = ("info" :> (construct(FALSE, "arraybuf", N, prefix_of("info"))
                              @@ [frames |-> 0, arg |-> 0]))
    /\ dest = <<>>
    /\ ops = <<>>

\* the caller calls sputc(c): the character is stored and the call returns,
\* or the put area is full and sputc calls overflow
CallSputc(h) ==
    \E c \in Byte :
        /\ sb[h].frames = 0
        /\ Count("sputc") < MaxLen
        /\ IF sb[h].pptr < epptr(sb[h])
           THEN LET r == sputc(sb[h], dest, c)
                IN  /\ sb' = [sb EXCEPT ![h] = r.s]
                    /\ dest' = r.os
                    /\ ops' = Append(ops, Op(h, "sputc", c, r))
           ELSE /\ sb' = [sb EXCEPT ![h].frames = 1, ![h].arg = to_int_type(c)]
                /\ dest' = dest
                /\ ops' = Append(ops, [h |-> h, op |-> "sputc", ch |-> c,
                                       ret |-> to_int_type(c),
                                       at |-> Len(dest), end |-> Len(dest)])

\* the innermost activation of arraybuf::overflow runs: commit(), then
\* sputc(ch), which stores the character, so that every activation returns,
\* or finds the put area full and calls overflow again
StepOverflow(h) ==
    /\ sb[h].frames > 0
    /\ LET c == commit(sb[h], dest)
       IN  IF c.s.pptr < epptr(c.s)
           THEN LET r == sputc(c.s, c.os, to_char_type(sb[h].arg))
                IN  /\ sb' = [sb EXCEPT ![h] = [r.s EXCEPT !.frames = 0]]
                    /\ dest' = r.os
                    /\ ops' = [ops EXCEPT ![Len(ops)].end = Len(r.os)]
           ELSE /\ sb[h].frames < MaxDepth
                /\ sb' = [sb EXCEPT ![h] = [c.s EXCEPT !.frames = @ + 1]]
                /\ dest' = c.os
                /\ ops' = [ops EXCEPT ![Len(ops)].end = Len(c.os)]

\* the caller calls pubsync() when no call is in progress
CallSync(h) == sb[h].frames = 0 /\ Flush(h)

NextCall == \E h \in DOMAIN sb : CallSputc(h) \/ StepOverflow(h) \/ CallSync(h)

\* calls on an arraybuf<N>, the activations of overflow taken one at a time
SpecCall == InitCall /\ [][NextCall]_vars

(* ------------------------- reading the history ------------------------- *)

RECURSIVE Flatten(_)
\* the concatenation of a sequence of sequences
Flatten(ss) == IF ss = <<>> THEN <<>> ELSE Head(ss) \o Flatten(Tail(ss))

\* the destination calls issued by the calls a..b of the history H
Calls(H, a, b) ==
    Flatten([i \in 1..(b - a + 1) |->
                SubSeq(dest, H[a + i - 1].at + 1, H[a + i - 1].end)])

\* the write calls among destination calls
Writes(cs) == SelectSeq(cs, LAMBDA e : e.call = "write")

\* the bytes a sequence of destination calls transfers
Bytes(cs) == Flatten([i \in 1..Len(cs) |-> cs[i].data])

\* the write calls that were given prefix_value / the put area
PrefixWrites(cs) == SelectSeq(cs, LAMBDA e : e.call = "write" /\ e.ptr = "prefix_value")
CommitWrites(cs) == SelectSeq(cs, LAMBDA e : e.call = "write" /\ e.ptr = "pbase")

\* the characters written by the sputc calls a..b of H
Chars(H, a, b) == [i \in 1..(b - a + 1) |-> H[a + i - 1].ch]

\* the flush cycle that call i of H closes or lies in starts at this index:
\* right after the last pubsync before i
CycleStart(H, i) ==
    LET F == {j \in 1..(i - 1) : H[j].op = "pubsync"}
    IN  IF F = {} THEN 1 ELSE (CHOOSE j \in F : \A k \in F : k <= j) + 1

\* the prefix as written to the destination
PrefixOf(s) == SubSeq(s.prefix_value, 1, Len(s.prefix_value) - 1)

\* the indexes of the pubsync calls in H
Flushes(H) == {i \in 1..Len(H) : H[i].op = "pubsync"}

IsPrefixedArray(s) == s.prefixed /\ s.base = "arraybuf"

IsArray(s) == s.base = "arraybuf"

\* pubsync call i of H closes a cycle of k characters: the calls a..i-1 are
\* the k sputc calls since the previous pubsync (or since construction)
CycleLen(H, i) == i - CycleStart(H, i)

(* ------------------------------- claims -------------------------------- *)

\* C1 as stated: on a prefixed arraybuf<N>, a cycle of k < N characters closed
\* by an explicit flush makes the destination receive exactly one write call,
\* whose payload is the prefix followed by the k characters.
C1_OneWriteCall ==
    \A h \in DOMAIN sb :
        LET H == OpsOf(h)
        IN  IsPrefixedArray(sb[h]) =>
            \A i \in Flushes(H) :
                LET a == CycleStart(H, i)
                    W == Writes(Calls(H, a, i))
                IN  CycleLen(H, i) < sb[h].capacity =>
                        /\ Len(W) = 1
                        /\ W[1].data = PrefixOf(sb[h]) \o Chars(H, a, i - 1)

\* C1 amended: such a cycle makes the destination receive exactly two write
\* calls, the prefix and then the k characters in order (the second call is
\* empty when k = 0), so the bytes received are prefix + the k characters.
C1_TwoWriteCalls ==
    \A h \in DOMAIN sb :
        LET H == OpsOf(h)
        IN  IsPrefixedArray(sb[h]) =>
            \A i \in Flushes(H) :
                LET a == CycleStart(H, i)
                    W == Writes(Calls(H, a, i))
                IN  CycleLen(H, i) < sb[h].capacity =>
                        /\ Len(W) = 2
                        /\ W[1].ptr = "prefix_value"
                        /\ W[1].data = PrefixOf(sb[h])
                        /\ W[2].ptr = "pbase"
                        /\ W[2].data = Chars(H, a, i - 1)
                        /\ Bytes(W) = PrefixOf(sb[h]) \o Chars(H, a, i - 1)

\* a prefixed arraybuf<N>, N >= 3, was flushed after a first cycle of two
\* characters
C1_Witness ==
    \E h \in DOMAIN sb :
        LET H == OpsOf(h)
        IN  /\ IsPrefixedArray(sb[h])
            /\ sb[h].capacity >= 3
            /\ Len(H) = 3
            /\ H[1].op = "sputc" /\ H[2].op = "sputc" /\ H[3].op = "pubsync"
            /\ H[1].ch # H[2].ch
            /\ Len(dest) = 3

\* C2: in a cycle of more than N characters closed by an explicit flush, the
\* prefix is written to the destination exactly once, as the first write of
\* the cycle and right before the first committed characters; every later
\* write of the cycle is a commit of the put area.
C2_PrefixOncePerLongCycle ==
    \A h \in DOMAIN sb :
        LET H == OpsOf(h)
        IN  IsPrefixedArray(sb[h]) =>
            \A i \in Flushes(H) :
                LET a == CycleStart(H, i)
                    W == Writes(Calls(H, a, i))
                IN  CycleLen(H, i) > sb[h].capacity =>
                        /\ Len(PrefixWrites(W)) = 1
                        /\ Len(W) >= 3
                        /\ W[1].ptr = "prefix_value"
                        /\ W[1].data = PrefixOf(sb[h])
                        /\ W[2].ptr = "pbase"
                        /\ W[2].data = Chars(H, a, a + sb[h].capacity - 1)
                        /\ \A j \in 2..Len(W) : W[j].ptr = "pbase"

\* a cycle that overflowed at least twice was closed by a flush, after an
\* earlier cycle
C2_Witness ==
    \E h \in DOMAIN sb :
        LET H == OpsOf(h)
        IN  /\ IsPrefixedArray(sb[h])
            /\ \E i \in Flushes(H) :
                   /\ CycleStart(H, i) > 1
                   /\ CycleLen(H, i) > sb[h].capacity
                   /\ Len(CommitWrites(Calls(H, CycleStart(H, i), i))) >= 3

\* C3 as stated: the second of two flushes in succession on a prefixed stream
\* buffer writes neither the prefix nor any character to the destination.
C3_SecondFlushWritesNothing ==
    \A h \in DOMAIN sb :
        LET H == OpsOf(h)
        IN  sb[h].prefixed =>
            \A i \in Flushes(H) :
                (i > 1 /\ H[i - 1].op = "pubsync") =>
                    Bytes(Calls(H, i, i)) = <<>>

\* C4: k < N characters, a flush, further characters and a second flush make
\* the destination receive prefix + the first characters by the end of the
\* first flush and prefix + the further characters after it.
C4_TwoSegments ==
    \A h \in DOMAIN sb :
        LET H == OpsOf(h)
        IN  IsPrefixedArray(sb[h]) =>
            \A i1 \in Flushes(H), i2 \in Flushes(H) :
                LET a1 == CycleStart(H, i1)
                    a2 == CycleStart(H, i2)
                IN  (a2 = i1 + 1 /\ CycleLen(H, i1) < sb[h].capacity) =>
                        /\ Bytes(Calls(H, a1, i1)) =
                               PrefixOf(sb[h]) \o Chars(H, a1, i1 - 1)
                        /\ Bytes(Calls(H, a2, i2)) =
                               PrefixOf(sb[h]) \o Chars(H, a2, i2 - 1)
                        /\ Bytes(Calls(H, a1, i2)) =
                               PrefixOf(sb[h]) \o Chars(H, a1, i1 - 1) \o
                               PrefixOf(sb[h]) \o Chars(H, a2, i2 - 1)

\* two flushed segments, the first shorter than N and the second overflowing
C4_Witness ==
    \E h \in DOMAIN sb :
        LET H == OpsOf(h)
        IN  /\ IsPrefixedArray(sb[h])
            /\ \E i1 \in Flushes(H), i2 \in Flushes(H) :
                   /\ CycleStart(H, i2) = i1 + 1
                   /\ CycleLen(H, i1) > 0
                   /\ CycleLen(H, i1) < sb[h].capacity
                   /\ CycleLen(H, i2) > sb[h].capacity

\* the index of the destroy call in H, 0 when the object is alive
Destroyed(H) ==
    IF H # <<>> /\ H[Len(H)].op = "destroy" THEN Len(H) ELSE 0

\* the characters written by all sputc calls of H
Written(H) ==
    LET P == SelectSeq(H, LAMBDA o : o.op = "sputc")
    IN  [i \in 1..Len(P) |-> P[i].ch]

\* C5: destroying a prefixed arraybuf<N> whose put area holds characters
\* delivers them once and in order: the last cycle reaches the destination as
\* one prefix and its characters, every character ever written has been
\* committed exactly once, and after 0 < k < N characters the destruction
\* itself writes prefix + the k characters.
C5_DestroyDelivers ==
    \A h \in DOMAIN sb :
        LET H == OpsOf(h)
            d == Destroyed(H)
            a == CycleStart(H, d)
            D == Calls(H, d, d)
        IN  (IsPrefixedArray(sb[h]) /\ d > 0 /\ d - a > 0) =>
                /\ Bytes(Calls(H, a, d)) = PrefixOf(sb[h]) \o Chars(H, a, d - 1)
                /\ Len(PrefixWrites(Calls(H, a, d))) = 1
                /\ Bytes(CommitWrites(Calls(H, 1, d))) = Written(H)
                /\ (d - a < sb[h].capacity) =>
                       Bytes(D) = PrefixOf(sb[h]) \o Chars(H, a, d - 1)

\* a prefixed arraybuf<N> was destroyed with k characters in the put area,
\* 0 < k < N, after an earlier flushed cycle
C5_Witness ==
    \E h \in DOMAIN sb :
        LET H == OpsOf(h)
            d == Destroyed(H)
            a == CycleStart(H, d)
        IN  /\ IsPrefixedArray(sb[h])
            /\ d > 0 /\ a > 1
            /\ d - a > 0 /\ d - a < sb[h].capacity
            /\ ~sb[h].alive

\* C6: destroying a prefixed stream buffer whose put area is empty (never
\* written, or just flushed) writes no prefix byte and no character to the
\* destination.
C6_DestroyEmptyWritesNothing ==
    \A h \in DOMAIN sb :
        LET H == OpsOf(h)
            d == Destroyed(H)
        IN  (sb[h].prefixed /\ d > 0 /\ d - CycleStart(H, d) = 0) =>
                /\ Bytes(Calls(H, d, d)) = <<>>
                /\ PrefixWrites(Calls(H, d, d)) = <<>>

\* a prefixed arraybuf was destroyed right after a flush that closed a
\* non-empty cycle
C6_Witness ==
    \E h \in DOMAIN sb :
        LET H == OpsOf(h)
            d == Destroyed(H)
        IN  /\ IsPrefixedArray(sb[h])
            /\ d > 2
            /\ H[d - 1].op = "pubsync"
            /\ H[d - 2].op = "sputc"

\* C7: on a plain or prefixed arraybuf, the characters committed to the
\* destination (the prefix writes left out) followed by the characters in
\* the put area are exactly the characters written so far, in order; right
\* after a flush the put area is empty.
C7_NoLossNoDuplication ==
    \A h \in DOMAIN sb :
        LET H == OpsOf(h)
            s == sb[h]
        IN  IsArray(s) =>
                /\ Bytes(CommitWrites(dest)) \o SubSeq(s.buffer_, 1, s.pptr - pbase)
                       = Written(H)
                /\ (H # <<>> /\ H[Len(H)].op = "pubsync") =>
                       /\ s.pptr = pbase
                       /\ Bytes(CommitWrites(dest)) = Written(H)

\* after an overflow and a flush, characters are both at the destination and
\* in the put area
C7_Witness ==
    \E h \in DOMAIN sb :
        LET H == OpsOf(h)
            s == sb[h]
        IN  /\ IsArray(s)
            /\ s.pptr > pbase
            /\ Flushes(H) # {}
            /\ \E i \in 1..Len(H) : H[i].op = "sputc" /\ H[i].end > H[i].at
            /\ \E i \in 1..Len(H) : H[i].op = "sputc" /\ H[i].ch < 0

\* C8: no call on a nullbuf makes any call on a destination, and every
\* character written is reported written: sputc returns it, never EOF.
C8_NullSink ==
    \A h \in DOMAIN sb :
        LET H == OpsOf(h)
        IN  sb[h].base = "nullbuf" =>
                /\ dest = <<>>
                /\ \A i \in 1..Len(H) :
                       H[i].op = "sputc" =>
                           /\ H[i].ret = to_int_type(H[i].ch)
                           /\ H[i].ret # -1

\* a nullbuf took characters and flushes
C8_Witness ==
    \E h \in DOMAIN sb :
        LET H == OpsOf(h)
        IN  /\ sb[h].base = "nullbuf"
            /\ Len(Written(H)) >= 2
            /\ Cardinality(Flushes(H)) >= 2

\* C9: the write cursor pptr - pbase of an arraybuf<N> is always in [0, N].
C9_CursorInRange ==
    \A h \in DOMAIN sb :
        IsArray(sb[h]) =>
            /\ sb[h].pptr - pbase >= 0
            /\ sb[h].pptr - pbase <= sb[h].capacity

\* the put area of an arraybuf is full again after an overflow
C9_Witness ==
    \E h \in DOMAIN sb :
        LET H == OpsOf(h)
        IN  /\ IsArray(sb[h])
            /\ sb[h].pptr - pbase = sb[h].capacity
            /\ \E i \in 1..Len(H) : H[i].op = "sputc" /\ H[i].end > H[i].at

\* "[info]: hello worl" and "d, test"
FirstChunk == <<91, 105, 110, 102, 111, 93, 58, 32,
                104, 101, 108, 108, 111, 32, 119, 111, 114, 108>>
SecondChunk == <<100, 44, 32, 116, 101, 115, 116>>

\* the history is the whole message followed by one flush, on a prefixed
\* arraybuf<10>
ScenarioDone(h) ==
    LET H == OpsOf(h)
    IN  /\ sb[h].prefixed
        /\ sb[h].capacity = 10
        /\ Len(H) = Len(Script) + 1
        /\ H[Len(H)].op = "pubsync"
        /\ \A i \in 1..Len(Script) : H[i].op = "sputc"

\* C10: in a cycle on an arraybuf<N>, which starts with an empty put area,
\* the first N characters make no call on the destination; character N + 1
\* commits exactly the N buffered characters (after the prefix, on a prefixed
\* buffer) and is then stored, leaving the cursor at 1.  With N = 10 and
\* prefix "[info]: ", "hello world, test" and a flush put
\* "[info]: hello worl" at the destination at the 11th character and
\* "d, test", without prefix, at the flush.
C10_OverflowTiming ==
    \A h \in DOMAIN sb :
        LET H == OpsOf(h)
            s == sb[h]
            N == s.capacity
        IN  IsArray(s) =>
            /\ \A i \in 1..Len(H) :
                   LET a   == CycleStart(H, i)
                       pos == i - a + 1
                       W   == Calls(H, i, i)
                   IN  H[i].op = "sputc" =>
                       /\ pos <= N => W = <<>>
                       /\ pos = N + 1 =>
                              /\ Len(CommitWrites(W)) = 1
                              /\ CommitWrites(W)[1].data = Chars(H, a, a + N - 1)
                              /\ W[Len(W)].ptr = "pbase"
                              /\ Len(W) = IF s.prefixed THEN 2 ELSE 1
                              /\ i = Len(H) =>
                                     /\ s.pptr - pbase = 1
                                     /\ s.buffer_[1] = H[i].ch
            /\ ScenarioDone(h) =>
                   /\ Bytes(Calls(H, 11, 11)) = FirstChunk
                   /\ Bytes(Calls(H, Len(H), Len(H))) = SecondChunk
                   /\ Bytes(dest) = FirstChunk \o SecondChunk
                   /\ Len(PrefixWrites(dest)) = 1

\* the whole message was written to a prefixed arraybuf<10> and flushed
C10_Witness ==
    \E h \in DOMAIN sb : ScenarioDone(h) /\ Len(dest) = 4

\* the number of characters in the put area of an arraybuf<N> after L
\* characters of a cycle: the put area fills to N, and character N + 1
\* overflows it
Buffered(L, N) == IF L = 0 THEN 0 ELSE ((L - 1) % N) + 1

\* C12 as stated: a flush of an arraybuf whose cursor is 0 makes no write
\* call on the destination from the put area, not even one of length zero.
C12_NoWriteWhenEmpty ==
    \A h \in DOMAIN sb :
        LET H == OpsOf(h)
        IN  IsArray(sb[h]) =>
            \A i \in Flushes(H) :
                CycleLen(H, i) = 0 => CommitWrites(Calls(H, i, i)) = <<>>

\* C12 amended: every flush of an arraybuf makes exactly one write call from
\* the put area, with the characters [0, cursor) buffered at that time, and
\* then flushes the destination; with the cursor at 0 that write call has
\* length zero and transfers no byte.
C12_FlushAlwaysWrites ==
    \A h \in DOMAIN sb :
        LET H == OpsOf(h)
        IN  IsArray(sb[h]) =>
            \A i \in Flushes(H) :
                LET cs == Calls(H, i, i)
                    n  == Buffered(CycleLen(H, i), sb[h].capacity)
                IN  /\ Len(CommitWrites(cs)) = 1
                    /\ CommitWrites(cs)[1].data = Chars(H, i - n, i - 1)
                    /\ cs[Len(cs)].call = "flush"
                    /\ cs[Len(cs) - 1] = CommitWrites(cs)[1]
                    /\ CycleLen(H, i) = 0 => Bytes(CommitWrites(cs)) = <<>>

\* a plain arraybuf was flushed with characters in the put area and flushed
\* again with none
C12_Witness ==
    \E h \in DOMAIN sb :
        LET H == OpsOf(h)
        IN  /\ IsArray(sb[h]) /\ ~sb[h].prefixed
            /\ Len(H) = 3
            /\ H[1].op = "sputc" /\ H[2].op = "pubsync" /\ H[3].op = "pubsync"
            /\ Len(Writes(Calls(H, 3, 3))) = 1

\* C13: the prefix goes to the destination and not through the put area: in
\* every state of a prefixed arraybuf<N> the put area holds exactly the last
\* characters the caller wrote in the cycle, as many as a plain arraybuf<N>
\* holds, the commits carry caller characters only, and the characters that
\* overflow are N + 1, 2N + 1, ... of the cycle, as on a plain arraybuf<N>.
C13_PrefixBypassesBuffer ==
    \A h \in DOMAIN sb :
        LET H == OpsOf(h)
            s == sb[h]
            N == s.capacity
            n == Buffered(Len(H) + 1 - CycleStart(H, Len(H) + 1), N)
        IN  (IsArray(s) /\ s.alive) =>
                /\ s.pptr - pbase = n
                /\ SubSeq(s.buffer_, 1, n) = Chars(H, Len(H) - n + 1, Len(H))
                /\ Bytes(CommitWrites(dest)) \o SubSeq(s.buffer_, 1, n) = Written(H)
                /\ \A i \in 1..Len(H) :
                       LET pos == i - CycleStart(H, i) + 1
                       IN  H[i].op = "sputc" =>
                               ((CommitWrites(Calls(H, i, i)) # <<>>)
                                   <=> (pos > 1 /\ (pos - 1) % N = 0))

\* a prefixed arraybuf wrote its prefix on an overflow and, in another cycle,
\* on a flush, and holds characters
C13_Witness ==
    \E h \in DOMAIN sb :
        LET H == OpsOf(h)
        IN  /\ IsPrefixedArray(sb[h])
            /\ sb[h].alive
            /\ sb[h].pptr > pbase
            /\ \E i \in 1..Len(H) :
                   H[i].op = "sputc" /\ PrefixWrites(Calls(H, i, i)) # <<>>
            /\ \E i \in Flushes(H) :
                   CycleLen(H, i) > 0 /\ PrefixWrites(Calls(H, i, i)) # <<>>

\* the destination calls issued since the last flush of H returned
OpenCycle(H) == Calls(H, CycleStart(H, Len(H) + 1), Len(H))

\* C11 as stated: send_prefix_ of a prefixed stream buffer is true exactly
\* when no content byte has been committed to the destination since the last
\* flush (or since construction).
C11_FlagIffNothingCommitted ==
    \A h \in DOMAIN sb :
        LET H == OpsOf(h)
        IN  (sb[h].prefixed /\ sb[h].alive) =>
                (sb[h].send_prefix_ <=> Bytes(CommitWrites(OpenCycle(H))) = <<>>)

\* C11 amended: send_prefix_ is true exactly when the prefix has not been
\* written to the destination since the last flush (or since construction):
\* true initially and after every flush, false from the first overflow of a
\* cycle on.  On a prefixed arraybuf that is exactly when no content byte
\* has been committed since; on a prefixed stringbuf an overflow commits
\* nothing.
C11_FlagIffPrefixNotWritten ==
    \A h \in DOMAIN sb :
        LET H  == OpsOf(h)
            s  == sb[h]
            cs == OpenCycle(H)
        IN  (s.prefixed /\ s.alive) =>
                /\ s.send_prefix_ <=> PrefixWrites(cs) = <<>>
                /\ H = <<>> => s.send_prefix_
                /\ (H # <<>> /\ H[Len(H)].op = "pubsync") => s.send_prefix_
                /\ IsArray(s) =>
                       (s.send_prefix_ <=> Bytes(CommitWrites(cs)) = <<>>)
                /\ s.base = "stringbuf" => CommitWrites(cs) = <<>>

\* a prefixed stringbuf overflowed in a cycle that follows a flush
C11_Witness ==
    \E h \in DOMAIN sb :
        LET H == OpsOf(h)
        IN  /\ sb[h].prefixed /\ sb[h].base = "stringbuf" /\ sb[h].alive
            /\ ~sb[h].send_prefix_
            /\ Flushes(H) # {}
            /\ H[Len(H)].op = "sputc"

\* C16: on a prefixed stringbuf, whenever and however often the string
\* overflows, the characters of a cycle and its flush leave prefix + the
\* characters in order at the destination: the prefix in one write, before
\* the single write of the characters, and the string is empty after the
\* flush.
C16_PrefixedDynamic ==
    \A h \in DOMAIN sb :
        LET H == OpsOf(h)
            s == sb[h]
        IN  (s.prefixed /\ s.base = "stringbuf") =>
            \A i \in Flushes(H) :
                LET a == CycleStart(H, i)
                    W == Writes(Calls(H, a, i))
                IN  /\ Bytes(W) = PrefixOf(s) \o Chars(H, a, i - 1)
                    /\ Len(W) = 2
                    /\ W[1].ptr = "prefix_value" /\ W[1].data = PrefixOf(s)
                    /\ W[2].ptr = "pbase" /\ W[2].data = Chars(H, a, i - 1)
                    /\ i = Len(H) => s.pptr = pbase

\* a prefixed stringbuf was flushed after a cycle in which it overflowed
\* twice, and again after a cycle in which it did not overflow
C16_Witness ==
    \E h \in DOMAIN sb :
        LET H == OpsOf(h)
            s == sb[h]
        IN  /\ s.prefixed /\ s.base = "stringbuf"
            /\ \E i \in Flushes(H) :
                   /\ PrefixWrites(Calls(H, i, i)) = <<>>
                   /\ s.capacity >= s.cap0 + 2 * s.grow
            /\ \E i \in Flushes(H) :
                   /\ CycleLen(H, i) > 0
                   /\ PrefixWrites(Calls(H, i, i)) # <<>>

\* the chars a sequence of destination calls was given
Requested(cs) == Flatten([i \in 1..Len(cs) |-> cs[i].req])

\* the chars in the put area
PutArea(s) == SubSeq(s.buffer_, 1, s.pptr - pbase)

C18_SyncReportsSuccess ==
    \A h \in DOMAIN sb :
        LET H == OpsOf(h)
            s == sb[h]
        IN  /\ \A i \in 1..Len(H) :
                   /\ H[i].op = "pubsync" => H[i].ret = 0
                   /\ H[i].op = "sputc" =>
                          H[i].ret = to_int_type(H[i].ch) /\ H[i].ret # -1
            /\ (H # <<>> /\ H[Len(H)].op = "pubsync") => s.pptr = pbase

\* a flush found characters in the put area and the destination failed
C18_Witness ==
    \E h \in DOMAIN sb :
        LET H == OpsOf(h)
            i == Len(H)
        IN  /\ H # <<>>
            /\ H[i].op = "pubsync"
            /\ Requested(CommitWrites(Calls(H, i, i))) # <<>>
            /\ Bytes(Calls(H, i, i)) = <<>>
            /\ fail(dest)
            /\ sb[h].prefixed

\* every message is closed by a flush before a write to the other handle
\* begins: a write on one handle finds every earlier write on the other
\* handle followed by a flush of that handle
Disciplined ==
    \A i \in 1..Len(ops), j \in 1..Len(ops) :
        (j < i /\ ops[i].op = "sputc" /\ ops[j].op = "sputc" /\ ops[j].h # ops[i].h) =>
            \E k \in (j + 1)..(i - 1) : ops[k].h = ops[j].h /\ ops[k].op = "pubsync"

\* no handle has characters written and not flushed
AllFlushed ==
    \A h \in DOMAIN sb :
        OpsOf(h) = <<>> \/ OpsOf(h)[Len(OpsOf(h))].op = "pubsync"

\* the characters of the message that the flush at index i of ops closes
MsgChars(i) ==
    LET P == {j \in 1..(i - 1) : ops[j].h = ops[i].h /\ ops[j].op = "pubsync"}
        a == IF P = {} THEN 1 ELSE (CHOOSE j \in P : \A k \in P : k <= j) + 1
        M == SelectSeq(SubSeq(ops, a, i - 1), LAMBDA o : o.h = ops[i].h)
    IN  [k \in 1..Len(M) |-> M[k].ch]

\* the blocks prefix + message of the flushed messages, in the order of
\* their flushes
Blocks ==
    Flatten([i \in 1..Len(ops) |->
                IF ops[i].op = "pubsync"
                THEN PrefixOf(sb[ops[i].h]) \o MsgChars(i)
                ELSE <<>>])

\* C15 as stated: when every message is closed by a flush before a write of
\* the next message on either handle begins, the destination holds the
\* blocks prefix(handle) + message in message order, none split by bytes of
\* the other handle.
C15_BlocksNotSplit ==
    (Disciplined /\ AllFlushed) => Bytes(dest) = Blocks

\* C17 as stated: on an arraybuf<N>, for every N it can be instantiated
\* with, a write returns after at most one commit: the sputc that overflow
\* calls finds room, so that overflow is never entered again before it has
\* returned, and no sputc makes more than one write call.
C17_WriteReturnsAfterOneCommit ==
    \A h \in DOMAIN sb :
        LET H == OpsOf(h)
        IN  /\ sb[h].frames <= 1
            /\ \A i \in 1..Len(H) :
                   H[i].op = "sputc" => Len(CommitWrites(Calls(H, i, i))) <= 1

====
